---- MODULE Spec2Model ----
(***************************************************************************)
(* Phabricator data source: the paginated client (client.py) and the       *)
(* synchronisation pass with its batch dispatcher (phabricator.py).        *)
(*                                                                         *)
(* Three specifications share the variables and the actions:               *)
(*   Spec       one client call (get_all_wikis, get_all_tasks or           *)
(*              get_object_comments) driven to its end by _get_objects;    *)
(*   SpecPass   one whole pass of _feed_new_documents;                     *)
(*   SpecIndex  _index_all_documents over streams around the batch size.   *)
(***************************************************************************)
EXTENDS Integers, Sequences, FiniteSets, TLC

VARIABLES
    pc,                \* where the caller of the client stands
    date_modified,     \* the watermark (_last_index_time_timestamp)
    method,            \* the client method whose traversal is running
    obj,               \* the parent object of get_object_comments, as <<obj>>
    query,             \* _get_objects: the query dict
    paging_direction,  \* _get_objects: the locked direction
    is_first_page,     \* _get_objects: the first-page flag
    parsed_objects,    \* _get_objects: the accumulator
    status,            \* _get_objects: idle, running, returned or raised
    retval,            \* what the caller received from the call, as <<value>>
    trav,              \* number of the running traversal within the behaviour
    log,               \* every endpoint call: traversal, query sent, outcome
    wikis,             \* _fetch_all_objects: wikis
    tasks,             \* _fetch_all_objects: tasks
    phab_objects,      \* _feed_new_documents: phab_objects
    comments,          \* _fetch_all_comments: comments
    doc_idx,           \* _fetch_all_comments: position of the for loop
    documents,         \* _index_all_documents: the argument
    next_doc,          \* _index_all_documents: position of the for loop
    parsed_documents,  \* _index_all_documents: the accumulator
    total_fed,         \* _index_all_documents: total_fed
    fed                \* IndexQueue: the batches fed, in feed order

travVars == <<method, obj, query, paging_direction, is_first_page,
              parsed_objects, status, retval, trav, log>>
passVars == <<wikis, tasks, phab_objects, comments, doc_idx>>
indexVars == <<documents, next_doc, parsed_documents, total_fed, fed>>
vars == <<pc, date_modified, travVars, passVars, indexVars>>

-----------------------------------------------------------------------------
(* Bounds of the model.                                                    *)

\* pages with a non-null cursor the remote serves in one client call
MaxCursors == 2
\* rows the remote serves in one client call
MaxObjects == 2
\* pages with a non-null cursor the remote serves in one whole pass
PassCursors == 1
\* rows the remote serves in one whole pass
PassObjects == 4
\* full batches in the streams given to _index_all_documents
MaxBatches == 2

\* the entities (by number) of each kind on the remote
Phids == {1, 2}
\* the modification times on the remote, and the watermarks
Times == {0, 1}

\* Python's None, in string-valued places (cursor tokens, directions)
None == "None"

SeqsUpTo(S, n) == UNION {[1..k -> S] : k \in 0..n}

RECURSIVE Concat(_)
Concat(ss) == IF ss = <<>> THEN <<>> ELSE Head(ss) \o Concat(Tail(ss))

Min(a, b) == IF a <= b THEN a ELSE b

-----------------------------------------------------------------------------
(* The remote: raw rows as the three search endpoints return them.         *)

UserPhid(n) == "PHID-USER-" \o ToString(n)
TaskPhid(n) == "PHID-TASK-" \o ToString(n)
WikiPhid(n) == "PHID-WIKI-" \o ToString(n)
XactPhid(parent, n) == "PHID-XACT-" \o ToString(n) \o "-on-" \o parent

\* a row of maniphest.search
TaskRow(p, t) ==
    [id |-> p,
     phid |-> TaskPhid(p),
     fields |-> [name |-> "task" \o ToString(p),
                 description |-> [raw |-> <<"task text", p, t>>],
                 dateModified |-> t,
                 authorPHID |-> UserPhid(p)]]

\* a row of phriction.content.search: one revision of a wiki document
WikiRow(p, t) ==
    [id |-> 10 * p + t,
     phid |-> WikiPhid(p),
     fields |-> [dateModified |-> t],
     attachments |-> [content |-> [authorPHID |-> UserPhid(p),
                                   title |-> "wiki" \o ToString(p),
                                   content |-> [raw |-> <<"wiki text", p, t>>]]]]

\* one version of a comment inside a transaction
CommentPayload(parent, n, t, version) ==
    [id |-> 10 * n + version,
     phid |-> XactPhid(parent, n),
     content |-> [raw |-> <<"comment text", parent, n, version>>],
     dateModified |-> t,
     authorPHID |-> UserPhid(n)]

\* a row of transaction.search of type "comment": the current version of the
\* comment first, then its original version
CommentTx(parent, n, t) ==
    [type |-> "comment",
     objectPHID |-> parent,
     comments |-> <<CommentPayload(parent, n, t, 2), CommentPayload(parent, n, 0, 1)>>]

\* a row of transaction.search of another type
OtherTx(parent) == [type |-> "status", objectPHID |-> parent, comments |-> <<>>]

\* the remote's size: pages with a cursor and rows served in a behaviour, rows
\* per page, entities per kind, the cursor fields it uses
ClientRemote ==
    [cursors |-> MaxCursors, objects |-> MaxObjects,
     page_rows |-> MaxObjects, phids |-> Phids, directions |-> {"before", "after"}]

PassRemote ==
    [cursors |-> PassCursors, objects |-> PassObjects,
     page_rows |-> 1, phids |-> {1}, directions |-> {"after"}]

Rows(m, o, remote) ==
    CASE m = "get_all_tasks" ->
           {TaskRow(p, t) : p \in remote.phids, t \in Times}
      [] m = "get_all_wikis" ->
           {WikiRow(p, t) : p \in remote.phids, t \in Times}
      [] m = "get_object_comments" ->
           {CommentTx(o[1].phid, n, t) : n \in remote.phids, t \in Times}
             \cup {OtherTx(o[1].phid)}

\* the cursor token the remote attaches to the page it serves as the k-th
\* answer of a traversal
Token(dir, k) == dir \o ToString(k)

PageEntries(l) == SelectSeq(l, LAMBDA e : e.result.tag = "page")

RECURSIVE RowsIn(_)
RowsIn(l) ==
    IF l = <<>> THEN 0 ELSE Len(Head(l).result.page.data) + RowsIn(Tail(l))

\* the pages this traversal has received, in fetch order
PagesOf(l, tr) ==
    LET es == SelectSeq(PageEntries(l), LAMBDA e : e.trav = tr)
    IN [i \in 1..Len(es) |-> es[i].result.page]

CursorsServed(l) ==
    Len(SelectSeq(PageEntries(l),
                  LAMBDA e : e.result.page.cursor.before # None
                             \/ e.result.page.cursor.after # None))

\* the answers of the remote to the next call: {data, cursor}
Pages(m, o, remote, l, tr) ==
    LET k == Len(SelectSeq(l, LAMBDA e : e.trav = tr)) + 1
        left == remote.objects - RowsIn(PageEntries(l))
        cursors == IF CursorsServed(l) >= remote.cursors
                   THEN {[before |-> None, after |-> None]}
                   ELSE [before : {None} \cup {Token(d, k) : d \in remote.directions \cap {"before"}},
                         after : {None} \cup {Token(d, k) : d \in remote.directions \cap {"after"}}]
    IN [data : SeqsUpTo(Rows(m, o, remote), Min(left, remote.page_rows)),
        cursor : cursors]

-----------------------------------------------------------------------------
(* client.py                                                               *)

_get_paging_direction(cursor) ==
    IF cursor["before"] # None THEN "before"
    ELSE IF cursor["after"] # None THEN "after"
    ELSE None

\* the cursor written into a new mapping, the other keys lost
SetItemFresh(d, key, value) == [k \in {key} |-> value]

\* query[key] = value on a dict
SetItem(d, key, value) ==
    [k \in DOMAIN d \cup {key} |-> IF k = key THEN value ELSE d[k]]

PhabricatorCommentOf(comment) ==
    [cls |-> "PhabricatorComment",
     id |-> comment.id,
     phid |-> comment.phid,
     contents |-> comment.content.raw,
     timestamp |-> comment.dateModified,
     author_phid |-> comment.authorPHID]

\* the watermark test made strict
RECURSIVE _comment_parser_strict(_, _)
_comment_parser_strict(data, dm) ==
    IF data = <<>> THEN <<>>
    ELSE LET transaction == Head(data)
             rest == _comment_parser_strict(Tail(data), dm)
         IN IF transaction.type = "comment"
            THEN LET comment == transaction.comments[1]
                 IN IF comment.dateModified > dm
                    THEN <<PhabricatorCommentOf(comment)>> \o rest
                    ELSE rest
            ELSE rest

RECURSIVE _comment_parser(_, _)
_comment_parser(data, dm) ==
    IF data = <<>> THEN <<>>
    ELSE LET transaction == Head(data)
             rest == _comment_parser(Tail(data), dm)
         IN IF transaction.type = "comment"
            THEN LET comment == transaction.comments[1]
                 IN IF comment.dateModified >= dm
                    THEN <<PhabricatorCommentOf(comment)>> \o rest
                    ELSE rest
            ELSE rest

PhabricatorTaskOf(task) ==
    [cls |-> "PhabricatorTask",
     id |-> task.id,
     name |-> task.fields.name,
     contents |-> task.fields.description.raw,
     timestamp |-> task.fields.dateModified,
     phid |-> task.phid,
     author_phid |-> task.fields.authorPHID]

\* the work items filtered by the watermark on the client
_task_parser_filtered(data) ==
    LET kept == SelectSeq(data, LAMBDA task : task.fields.dateModified >= date_modified)
    IN [i \in 1..Len(kept) |-> PhabricatorTaskOf(kept[i])]

_task_parser(data) == [i \in 1..Len(data) |-> PhabricatorTaskOf(data[i])]

PhabricatorWikiOf(wiki) ==
    [cls |-> "PhabricatorWiki",
     id |-> wiki.id,
     phid |-> wiki.phid,
     author_phid |-> wiki.attachments.content.authorPHID,
     timestamp |-> wiki.fields.dateModified,
     name |-> wiki.attachments.content.title,
     contents |-> wiki.attachments.content.content.raw]

\* parsed_wikis[phid] = w on a dict kept as the sequence of its items in
\* insertion order: a key already present keeps its place and takes the value
DictSet(items, w) ==
    IF \E i \in 1..Len(items) : items[i].phid = w.phid
    THEN [i \in 1..Len(items) |-> IF items[i].phid = w.phid THEN w ELSE items[i]]
    ELSE Append(items, w)

RECURSIVE WikiDict(_, _, _)
WikiDict(data, dm, parsed_wikis) ==
    IF data = <<>> THEN parsed_wikis
    ELSE LET wiki == Head(data)
         IN WikiDict(Tail(data), dm,
                     IF wiki.fields.dateModified >= dm
                     THEN DictSet(parsed_wikis, PhabricatorWikiOf(wiki))
                     ELSE parsed_wikis)

\* the wiki rows kept whatever their modification time
_wiki_parser_unfiltered(data, dm) == WikiDict(data, 0, <<>>)

_wiki_parser(data, dm) == WikiDict(data, dm, <<>>)

\* parser(results, *args, **kwargs) as each client method passes it
Parser(m, results, dm) ==
    CASE m = "get_all_tasks" -> _task_parser(results.data)
      [] m = "get_all_wikis" -> _wiki_parser(results.data, dm)
      [] m = "get_object_comments" -> _comment_parser(results.data, dm)

\* the query dict each client method builds
InitialQuery(m, o, dm) ==
    CASE m = "get_all_tasks" ->
           [k \in {"queryKey", "constraints[modifiedStart]"} |->
              IF k = "queryKey" THEN "all" ELSE dm]
      [] m = "get_all_wikis" ->
           [k \in {"queryKey", "attachments[content]", "order"} |->
              CASE k = "queryKey" -> "all"
                [] k = "attachments[content]" -> TRUE
                [] k = "order" -> "newest"]
      [] m = "get_object_comments" ->
           [k \in {"objectIdentifier"} |-> o[1].phid]

\* the page's records put in front of the accumulator
ExtendInFront(acc, new) == new \o acc

\* the page's records not added to the accumulator
ExtendDropsPage(acc, new) == acc

\* parsed_objects.extend(parser(results))
Extend(acc, new) == acc \o new

\* the direction recomputed from every page's cursor
LockedDirectionEveryPage(first, dir, cursor) == _get_paging_direction(cursor)

\* lines 101-103: the direction is computed on the first page only
LockedDirection(first, dir, cursor) ==
    IF first THEN _get_paging_direction(cursor) ELSE dir

\* the loop stopping only when there is no direction, one fetch too many
LoopBreaksLate(dir, cursor) == dir = None

\* line 105: the loop's break condition
LoopBreaks(dir, cursor) == dir = None \/ cursor[dir] = None

\* a client method calls _get_objects with a fresh query
CallGetObjects(m, o) ==
    /\ method' = m
    /\ obj' = o
    /\ query' = InitialQuery(m, o, date_modified)
    /\ paging_direction' = None
    /\ is_first_page' = TRUE
    /\ parsed_objects' = <<>>
    /\ status' = "running"
    /\ retval' = <<>>
    /\ trav' = trav + 1
    /\ UNCHANGED log

LogEntry(result) == [trav |-> trav, query |-> query, result |-> result]

\* the failure swallowed, the records so far returned
FetchRaisesSwallowed ==
    /\ status = "running"
    /\ log' = Append(log, LogEntry([tag |-> "raise"]))
    /\ status' = "returned"
    /\ retval' = <<parsed_objects>>
    /\ UNCHANGED <<method, obj, query, paging_direction, is_first_page,
                   parsed_objects, trav>>

\* endpoint(query) raises (raise_for_status, or the transport): the exception
\* leaves _get_objects, nothing is returned
FetchRaises ==
    /\ status = "running"
    /\ log' = Append(log, LogEntry([tag |-> "raise"]))
    /\ status' = "raised"
    /\ UNCHANGED <<method, obj, query, paging_direction, is_first_page,
                   parsed_objects, retval, trav>>

\* the empty signal treated as a failure
FetchEmptyRaises ==
    /\ status = "running"
    /\ log' = Append(log, LogEntry([tag |-> "none"]))
    /\ status' = "raised"
    /\ UNCHANGED <<method, obj, query, paging_direction, is_first_page,
                   parsed_objects, retval, trav>>

\* endpoint(query) returns None: break, return parsed_objects
FetchEmpty ==
    /\ status = "running"
    /\ log' = Append(log, LogEntry([tag |-> "none"]))
    /\ status' = "returned"
    /\ retval' = <<parsed_objects>>
    /\ UNCHANGED <<method, obj, query, paging_direction, is_first_page,
                   parsed_objects, trav>>

\* endpoint(query) returns a page: one whole iteration of the loop
GetObjectsStep(results) ==
    LET parsed == Extend(parsed_objects, Parser(method, results, date_modified))
        next_page_cursor == results.cursor
        dir == LockedDirection(is_first_page, paging_direction, next_page_cursor)
    IN /\ log' = Append(log, LogEntry([tag |-> "page", page |-> results]))
       /\ parsed_objects' = parsed
       /\ paging_direction' = dir
       /\ is_first_page' = FALSE
       /\ IF LoopBreaks(dir, next_page_cursor)
          THEN /\ status' = "returned"
               /\ retval' = <<parsed>>
               /\ UNCHANGED query
          ELSE /\ query' = SetItem(query, dir, next_page_cursor[dir])
               /\ UNCHANGED <<status, retval>>
       /\ UNCHANGED <<method, obj, trav>>

FetchPage(remote) ==
    /\ status = "running"
    /\ \E results \in Pages(method, obj, remote, log, trav) :
          GetObjectsStep(results)

-----------------------------------------------------------------------------
(* One client call.                                                        *)

\* the objects get_object_comments is called on
SampleObjects == {PhabricatorTaskOf(TaskRow(1, 0)), PhabricatorWikiOf(WikiRow(1, 0))}

TravIdle ==
    /\ method = None
    /\ obj = <<>>
    /\ query = <<>>
    /\ paging_direction = None
    /\ is_first_page = TRUE
    /\ parsed_objects = <<>>
    /\ status = "idle"
    /\ retval = <<>>
    /\ trav = 0
    /\ log = <<>>

PassIdle ==
    /\ wikis = <<>>
    /\ tasks = <<>>
    /\ phab_objects = <<>>
    /\ comments = <<>>
    /\ doc_idx = 0

IndexIdle ==
    /\ documents = <<>>
    /\ next_doc = 0
    /\ parsed_documents = <<>>
    /\ total_fed = 0
    /\ fed = <<>>

Init ==
    /\ pc = "client"
    /\ date_modified \in Times
    /\ TravIdle
    /\ PassIdle
    /\ IndexIdle

ClientCall ==
    /\ pc = "client"
    /\ status = "idle"
    /\ \/ CallGetObjects("get_all_wikis", <<>>)
       \/ CallGetObjects("get_all_tasks", <<>>)
       \/ \E o \in SampleObjects : CallGetObjects("get_object_comments", <<o>>)
    /\ UNCHANGED <<pc, date_modified, passVars, indexVars>>

RemoteRaises == FetchRaises /\ UNCHANGED <<pc, date_modified, passVars, indexVars>>

RemoteEmpty == FetchEmpty /\ UNCHANGED <<pc, date_modified, passVars, indexVars>>

ClientFetchPage ==
    FetchPage(ClientRemote) /\ UNCHANGED <<pc, date_modified, passVars, indexVars>>

Next == ClientCall \/ RemoteRaises \/ RemoteEmpty \/ ClientFetchPage

Spec == Init /\ [][Next]_vars

-----------------------------------------------------------------------------
(* phabricator.py: _index_all_documents                                    *)

FEED_BATCH_SIZE == 512

\* datetime.fromtimestamp: the instant that many seconds after the epoch
FromTimestamp(seconds) == [datetime |-> seconds]

\* lines 59-62: the title of a document
TitleOf(document) ==
    IF document.cls = "PhabricatorComment" THEN "Comment" ELSE document.name

\* lines 65-76: the BasicDocument made of a document
BasicDocumentOf(document) ==
    [id |-> document.id,
     data_source_id |-> "self._data_source_id",
     type |-> "DocumentType.COMMENT",
     title |-> TitleOf(document),
     content |-> document.contents,
     timestamp |-> FromTimestamp(document.timestamp),
     author |-> document.author_phid,
     author_image_url |-> "@@@",
     location |-> "@@@",
     url |-> "@@@"]

\* a batch flushed one record late
BatchFullLate(acc) == Len(acc) > FEED_BATCH_SIZE

\* line 78: the accumulator has reached the batch size
BatchFull(acc) == Len(acc) >= FEED_BATCH_SIZE

\* _index_all_documents(documents) is entered
CallIndexAllDocuments(docs) ==
    /\ documents' = docs
    /\ next_doc' = 1
    /\ parsed_documents' = <<>>
    /\ total_fed' = 0
    /\ UNCHANGED fed

\* one iteration of the for loop
IndexDocument ==
    /\ pc = "index"
    /\ next_doc <= Len(documents)
    /\ LET acc == Append(parsed_documents, BasicDocumentOf(documents[next_doc]))
       IN IF BatchFull(acc)
          THEN /\ total_fed' = total_fed + Len(acc)
               /\ fed' = Append(fed, acc)
               /\ parsed_documents' = <<>>
          ELSE /\ parsed_documents' = acc
               /\ UNCHANGED <<total_fed, fed>>
    /\ next_doc' = next_doc + 1
    /\ UNCHANGED <<pc, date_modified, travVars, passVars, documents>>

\* the last feed left out when the accumulator is empty
IndexFinishSkipsEmpty ==
    /\ pc = "index"
    /\ next_doc > Len(documents)
    /\ total_fed' = total_fed + Len(parsed_documents)
    /\ fed' = IF parsed_documents = <<>> THEN fed ELSE Append(fed, parsed_documents)
    /\ pc' = "done"
    /\ UNCHANGED <<date_modified, travVars, passVars, documents, next_doc,
                   parsed_documents>>

\* the end of the stream reached without the last feed
IndexFinishNoFeed ==
    /\ pc = "index"
    /\ next_doc > Len(documents)
    /\ pc' = "done"
    /\ UNCHANGED <<date_modified, travVars, passVars, indexVars>>

\* lines 83-86: the feed at the end of the stream
IndexFinish ==
    /\ pc = "index"
    /\ next_doc > Len(documents)
    /\ total_fed' = total_fed + Len(parsed_documents)
    /\ fed' = Append(fed, parsed_documents)
    /\ pc' = "done"
    /\ UNCHANGED <<date_modified, travVars, passVars, documents, next_doc,
                   parsed_documents>>

\* the i-th record of a merged stream: work items, wiki pages and comments
StreamRecord(i) ==
    CASE i % 3 = 0 -> PhabricatorTaskOf(TaskRow(i, i % Cardinality(Times)))
      [] i % 3 = 1 -> PhabricatorWikiOf(WikiRow(i, i % Cardinality(Times)))
      [] i % 3 = 2 ->
           PhabricatorCommentOf(CommentPayload(TaskPhid(i), i, i % Cardinality(Times), 2))

\* stream lengths around the multiples of the batch size
StreamLengths ==
    {k * FEED_BATCH_SIZE + d : k \in 0..MaxBatches, d \in {0, 1, FEED_BATCH_SIZE - 1}}

InitIndex ==
    /\ pc = "index"
    /\ date_modified = 0
    /\ TravIdle
    /\ PassIdle
    /\ \E n \in StreamLengths : documents = [i \in 1..n |-> StreamRecord(i)]
    /\ next_doc = 1
    /\ parsed_documents = <<>>
    /\ total_fed = 0
    /\ fed = <<>>

NextIndex == IndexDocument \/ IndexFinish

SpecIndex == InitIndex /\ [][NextIndex]_vars

-----------------------------------------------------------------------------
(* phabricator.py: _feed_new_documents                                     *)

\* wiki pages put before work items
AllDocumentsWikisFirst(ts, ws) == ws \o ts

\* lines 94-98: all_documents, the tasks then the wikis
AllDocuments(ts, ws) == ts \o ws

InitPass ==
    /\ pc = "start"
    /\ date_modified \in Times
    /\ TravIdle
    /\ PassIdle
    /\ IndexIdle

\* line 91: _fetch_all_objects calls get_all_wikis
FetchWikis ==
    /\ pc = "start"
    /\ CallGetObjects("get_all_wikis", <<>>)
    /\ pc' = "wikis"
    /\ UNCHANGED <<date_modified, passVars, indexVars>>

\* line 92: wikis is bound, get_all_tasks is called
FetchTasks ==
    /\ pc = "wikis"
    /\ status = "returned"
    /\ wikis' = retval[1]
    /\ CallGetObjects("get_all_tasks", <<>>)
    /\ pc' = "tasks"
    /\ UNCHANGED <<date_modified, tasks, phab_objects, comments, doc_idx, indexVars>>

\* lines 92-98 and 50: tasks is bound, the top-level objects are merged and
\* returned; lines 51 and 102: _fetch_all_comments is entered
MergeObjects ==
    /\ pc = "tasks"
    /\ status = "returned"
    /\ tasks' = retval[1]
    /\ phab_objects' = AllDocuments(retval[1], wikis)
    /\ comments' = <<>>
    /\ doc_idx' = 1
    /\ status' = "idle"
    /\ pc' = "comments"
    /\ UNCHANGED <<date_modified, wikis, indexVars, method, obj, query,
                   paging_direction, is_first_page, parsed_objects, retval, trav, log>>

\* the documents visited from the last to the first
NextDocumentBackwards(docs, i) == docs[Len(docs) + 1 - i]

\* line 103: the document the for loop visits at its i-th iteration
NextDocument(docs, i) == docs[i]

\* lines 103-104: get_object_comments is called on the next document
FetchComments ==
    /\ pc = "comments"
    /\ status = "idle"
    /\ doc_idx <= Len(phab_objects)
    /\ CallGetObjects("get_object_comments", <<NextDocument(phab_objects, doc_idx)>>)
    /\ UNCHANGED <<pc, date_modified, passVars, indexVars>>

\* the returned comments appended to the list the for loop is visiting
ExtendCommentsInPlace ==
    /\ pc = "comments"
    /\ status = "returned"
    /\ phab_objects' = phab_objects \o retval[1]
    /\ doc_idx' = doc_idx + 1
    /\ status' = "idle"
    /\ UNCHANGED <<pc, date_modified, wikis, tasks, comments, indexVars, method,
                   obj, query, paging_direction, is_first_page, parsed_objects,
                   retval, trav, log>>

\* line 104: comments.extend(...) with what the call returned
ExtendComments ==
    /\ pc = "comments"
    /\ status = "returned"
    /\ comments' = comments \o retval[1]
    /\ doc_idx' = doc_idx + 1
    /\ status' = "idle"
    /\ UNCHANGED <<pc, date_modified, wikis, tasks, phab_objects, indexVars, method,
                   obj, query, paging_direction, is_first_page, parsed_objects,
                   retval, trav, log>>

\* lines 105 and 51-52: the comments are returned and appended to phab_objects,
\* _index_all_documents is called
IndexAll ==
    /\ pc = "comments"
    /\ status = "idle"
    /\ doc_idx > Len(phab_objects)
    /\ phab_objects' = phab_objects \o comments
    /\ CallIndexAllDocuments(phab_objects \o comments)
    /\ pc' = "index"
    /\ UNCHANGED <<date_modified, travVars, wikis, tasks, comments, doc_idx>>

\* a failure of a parent's comment traversal caught, the parent skipped
PassSkipsParent ==
    /\ pc = "comments"
    /\ status = "raised"
    /\ doc_idx' = doc_idx + 1
    /\ status' = "idle"
    /\ UNCHANGED <<pc, date_modified, wikis, tasks, phab_objects, comments,
                   indexVars, method, obj, query, paging_direction, is_first_page,
                   parsed_objects, retval, trav, log>>

\* an exception of a client call leaves _feed_new_documents
PassAborts ==
    /\ pc \in {"wikis", "tasks", "comments"}
    /\ status = "raised"
    /\ pc' = "failed"
    /\ UNCHANGED <<date_modified, travVars, passVars, indexVars>>

PassFetchPage ==
    FetchPage(PassRemote) /\ UNCHANGED <<pc, date_modified, passVars, indexVars>>

NextPass ==
    \/ FetchWikis \/ FetchTasks \/ MergeObjects \/ FetchComments \/ ExtendComments
    \/ IndexAll \/ PassAborts
    \/ RemoteRaises \/ RemoteEmpty \/ PassFetchPage
    \/ IndexDocument \/ IndexFinish

SpecPass == InitPass /\ [][NextPass]_vars

-----------------------------------------------------------------------------
(* Properties of one traversal of _get_objects.                            *)

\* the endpoint calls of traversal tr, in call order
EntriesOf(tr) == SelectSeq(log, LAMBDA e : e.trav = tr)

IsPage(e) == e.result.tag = "page"

\* tr is the traversal whose call of _get_objects is running or has just ended
Current(tr) == tr = trav /\ status # "idle"

\* the direction a first page's cursor announces
Announced(cursor) ==
    IF cursor.before # None THEN "before"
    ELSE IF cursor.after # None THEN "after" ELSE None

\* page e ends the traversal that started with the page of e1
Terminal(e1, e) ==
    LET d == Announced(e1.result.page.cursor)
    IN d = None \/ e.result.page.cursor[d] = None

\* the records the parser makes of the pages among the first n calls
ParsedUpTo(es, n) ==
    Concat([i \in 1..n |-> Parser(method, es[i].result.page, date_modified)])

\* C1: when the first page of a traversal has a non-null cursor.before, every
\* later fetch carries before = the previous page's cursor.before, no query of
\* the traversal has an 'after' key, and the direction stays "before".
C1_BeforeLocked ==
    \A tr \in 1..trav :
        LET es == EntriesOf(tr)
        IN (/\ Len(es) >= 1
            /\ IsPage(es[1])
            /\ es[1].result.page.cursor.before # None)
           => /\ \A i \in 1..Len(es) : "after" \notin DOMAIN es[i].query
              /\ \A i \in 2..Len(es) :
                    /\ "before" \in DOMAIN es[i].query
                    /\ es[i].query["before"] = es[i - 1].result.page.cursor.before
              /\ tr = trav => /\ paging_direction = "before"
                              /\ "after" \notin DOMAIN query

\* a third fetch issued in direction before after a second page that also
\* carried a non-null cursor.after
C1_Witness ==
    LET es == EntriesOf(trav)
    IN /\ Len(es) >= 3
       /\ es[1].result.page.cursor.before # None
       /\ es[2].result.page.cursor.after # None
       /\ es[3].query["before"] = es[2].result.page.cursor.before

\* C2: a traversal over pages only stops at the first page whose cursor field
\* of the locked direction is null (or whose first page announces no
\* direction): it fetches exactly N pages when that page is the N-th.
C2_ExactlyNFetches ==
    \A tr \in 1..trav :
        LET es == EntriesOf(tr)
            n == Len(es)
        IN (n >= 1 /\ \A i \in 1..n : IsPage(es[i]))
           => /\ \A i \in 1..(n - 1) : ~Terminal(es[1], es[i])
              /\ Current(tr) =>
                    /\ Terminal(es[1], es[n]) => status = "returned"
                    /\ ~Terminal(es[1], es[n]) => status = "running"

\* three pages, the third the first with a null field in the locked direction
C2_Witness ==
    LET es == EntriesOf(trav)
    IN /\ Len(es) = 3
       /\ \A i \in 1..3 : IsPage(es[i])
       /\ Terminal(es[1], es[3])
       /\ status = "returned"

\* C3: the empty signal on the k-th call ends the traversal without error and
\* without a further fetch, and the caller receives the records parsed from
\* the pages 1..k-1.
C3_EmptySignalReturnsAccumulated ==
    \A tr \in 1..trav :
        LET es == EntriesOf(tr)
        IN /\ \A i \in 1..Len(es) : es[i].result.tag = "none" => i = Len(es)
           /\ (Current(tr) /\ Len(es) >= 1 /\ es[Len(es)].result.tag = "none")
              => /\ status = "returned"
                 /\ retval = <<ParsedUpTo(es, Len(es) - 1)>>

\* the empty signal on the third call, after pages that gave records
C3_Witness ==
    LET es == EntriesOf(trav)
    IN /\ Len(es) = 3
       /\ es[3].result.tag = "none"
       /\ status = "returned"
       /\ Len(retval[1]) = 2

\* C4: a first page with both cursor fields null is the only page fetched: the
\* traversal returns that page's records and its query never gets a 'before'
\* or an 'after' key.
C4_SinglePage ==
    LET es == EntriesOf(trav)
    IN (/\ Current(trav)
        /\ Len(es) >= 1
        /\ IsPage(es[1])
        /\ es[1].result.page.cursor.before = None
        /\ es[1].result.page.cursor.after = None)
       => /\ Len(es) = 1
          /\ status = "returned"
          /\ retval = <<Parser(method, es[1].result.page, date_modified)>>
          /\ DOMAIN query \cap {"before", "after"} = {}
          /\ DOMAIN es[1].query \cap {"before", "after"} = {}

\* a single page with two rows and a null cursor, returned
C4_Witness ==
    LET es == EntriesOf(trav)
    IN /\ Len(es) = 1
       /\ IsPage(es[1])
       /\ es[1].result.page.cursor = [before |-> None, after |-> None]
       /\ Len(es[1].result.page.data) = 2
       /\ status = "returned"
       /\ Len(retval[1]) = 2

\* C5: get_all_wikis returns at most one WikiPage per phid.
C5_OneWikiPerPhid ==
    (method = "get_all_wikis" /\ status = "returned")
    => \A i, j \in 1..Len(retval[1]) :
          retval[1][i].phid = retval[1][j].phid => i = j

\* the Comment _comment_parser makes of a transaction
ExpectedComment(t) ==
    [cls |-> "PhabricatorComment",
     id |-> t.comments[1].id,
     phid |-> t.comments[1].phid,
     contents |-> t.comments[1].content.raw,
     timestamp |-> t.comments[1].dateModified,
     author_phid |-> t.comments[1].authorPHID]

Qualifies(t, w) == t.type = "comment" /\ t.comments[1].dateModified >= w

ExpectedComments(data, w) ==
    LET kept == SelectSeq(data, LAMBDA t : Qualifies(t, w))
    IN [i \in 1..Len(kept) |-> ExpectedComment(kept[i])]

\* C8: of every page of transactions the comment parser keeps, in page order,
\* one Comment per transaction of type "comment" whose first comment payload
\* has dateModified >= watermark, and nothing else.
C8_CommentParser ==
    method = "get_object_comments"
    => LET ps == PagesOf(log, trav)
       IN parsed_objects =
            Concat([i \in 1..Len(ps) |-> ExpectedComments(ps[i].data, date_modified)])

\* a page holding a comment older than the watermark and one modified exactly
\* at the watermark: only the second is kept
C8_Witness ==
    /\ method = "get_object_comments"
    /\ \E e \in {log[i] : i \in 1..Len(log)} :
          /\ IsPage(e)
          /\ Len(e.result.page.data) = 2
          /\ e.result.page.data[1].type = "comment"
          /\ e.result.page.data[1].comments[1].dateModified < date_modified
          /\ e.result.page.data[2].type = "comment"
          /\ e.result.page.data[2].comments[1].dateModified = date_modified
    /\ Len(parsed_objects) = 1
    /\ parsed_objects[1].timestamp = date_modified

\* C9: a failure of the k-th fetch ends the traversal without a further fetch,
\* reaches the caller, and the caller receives no record.
C9_FailurePropagates ==
    \A tr \in 1..trav :
        LET es == EntriesOf(tr)
        IN /\ \A i \in 1..Len(es) : es[i].result.tag = "raise" => i = Len(es)
           /\ (Current(tr) /\ Len(es) >= 1 /\ es[Len(es)].result.tag = "raise")
              => /\ status = "raised"
                 /\ retval = <<>>

\* the third fetch fails after two pages that gave records
C9_Witness ==
    LET es == EntriesOf(trav)
    IN /\ Len(es) = 3
       /\ es[3].result.tag = "raise"
       /\ Len(parsed_objects) = 2
       /\ status = "raised"
       /\ retval = <<>>

-----------------------------------------------------------------------------
(* Properties of _index_all_documents.                                     *)

BatchSizes == [i \in 1..Len(fed) |-> Len(fed[i])]

\* C6: the sink is fed each time the accumulator reaches 512 records and once
\* more at the end of the stream: every batch before the last holds exactly
\* 512 records, none holds more, the last holds n mod 512; 1025 records give
\* batches of 512, 512 and 1.
C6_BatchSizes ==
    LET n == Len(documents)
    IN /\ \A i \in 1..Len(fed) : Len(fed[i]) <= 512
       /\ pc = "index" =>
            /\ Len(parsed_documents) = (next_doc - 1) % 512
            /\ Len(fed) = (next_doc - 1) \div 512
            /\ \A i \in 1..Len(fed) : Len(fed[i]) = 512
       /\ pc = "done" =>
            /\ Len(fed) = (n \div 512) + 1
            /\ \A i \in 1..(Len(fed) - 1) : Len(fed[i]) = 512
            /\ Len(fed[Len(fed)]) = n % 512
            /\ n = 1025 => BatchSizes = <<512, 512, 1>>

\* a stream of 1025 records delivered as batches of 512, 512 and 1
C6_Witness ==
    /\ pc = "done"
    /\ Len(documents) = 1025
    /\ BatchSizes = <<512, 512, 1>>

\* C10: batching loses, duplicates and reorders nothing: the batches fed, one
\* after the other, are the export of the stream in stream order, and
\* total_fed is the number of records of the stream.
C10_ExactDelivery ==
    /\ pc = "index" =>
         /\ Concat(fed) \o parsed_documents =
              [i \in 1..(next_doc - 1) |-> BasicDocumentOf(documents[i])]
         /\ total_fed = Len(Concat(fed))
    /\ pc = "done" =>
         /\ Concat(fed) = [i \in 1..Len(documents) |-> BasicDocumentOf(documents[i])]
         /\ total_fed = Len(documents)

\* a stream of 513 records of the three kinds delivered in two batches
C10_Witness ==
    /\ pc = "done"
    /\ Len(documents) = 513
    /\ Len(fed) = 2
    /\ total_fed = 513
    /\ {Concat(fed)[i].title : i \in 1..3} = {"task3", "wiki1", "Comment"}

-----------------------------------------------------------------------------
(* Properties of a whole pass.                                             *)

\* the records the parser of method m makes of the pages of traversal tr
RecordsOf(tr, m) ==
    LET ps == PagesOf(log, tr)
    IN Concat([i \in 1..Len(ps) |-> Parser(m, ps[i], date_modified)])

Export(records) == [i \in 1..Len(records) |-> BasicDocumentOf(records[i])]

\* the phid of the object a delivered comment was written on, as the remote
\* wrote it into the comment's text
ParentOf(doc) == doc.content[2]

Delivered == Concat(fed)

\* C7: a completed pass delivers all work items in traversal order, then all
\* wiki pages in traversal order, then the comments grouped by parent in the
\* order of the parents in the work item + wiki page sequence; one work item
\* and one wiki page with one qualifying comment each arrive as the single
\* batch [WorkItem, WikiPage, CommentOfWorkItem, CommentOfWikiPage].
C7_DeliveryOrder ==
    pc = "done" =>
      LET T == RecordsOf(2, "get_all_tasks")
          K == RecordsOf(1, "get_all_wikis")
          parents == T \o K
          C == [i \in 1..Len(parents) |-> RecordsOf(2 + i, "get_object_comments")]
      IN /\ trav = 2 + Len(parents)
         /\ \A i \in 1..Len(parents) :
               /\ LET es == EntriesOf(2 + i)
                  IN /\ es # <<>>
                     /\ \A j \in 1..Len(es) :
                           es[j].query["objectIdentifier"] = parents[i].phid
               /\ \A j \in 1..Len(C[i]) : C[i][j].contents[2] = parents[i].phid
         /\ Delivered = Export(T \o K \o Concat(C))
         /\ (Len(T) = 1 /\ Len(K) = 1 /\ Len(C[1]) = 1 /\ Len(C[2]) = 1)
            => /\ Len(fed) = 1
               /\ fed[1] = Export(<<T[1], K[1], C[1][1], C[2][1]>>)
               /\ fed[1][1].title = "task1"
               /\ fed[1][2].title = "wiki1"
               /\ ParentOf(fed[1][3]) = T[1].phid
               /\ ParentOf(fed[1][4]) = K[1].phid

\* one work item and one wiki page, each with one comment not older than the
\* watermark, delivered as one batch of four
C7_Witness ==
    /\ pc = "done"
    /\ Len(fed) = 1
    /\ Len(fed[1]) = 4
    /\ [i \in 1..4 |-> fed[1][i].title] = <<"task1", "wiki1", "Comment", "Comment">>
    /\ ParentOf(fed[1][3]) = "PHID-TASK-1"
    /\ ParentOf(fed[1][4]) = "PHID-WIKI-1"

\* the rows the remote returned to traversal tr, page after page
RowsOf(tr) ==
    LET ps == PagesOf(log, tr)
    IN Concat([i \in 1..Len(ps) |-> ps[i].data])

\* the modification time of a raw row of the endpoint of method m
RowTime(m, row) ==
    CASE m = "get_all_tasks" -> row.fields.dateModified
      [] m = "get_all_wikis" -> row.fields.dateModified
      [] m = "get_object_comments" ->
           IF row.type = "comment" THEN row.comments[1].dateModified ELSE 0

\* traversal tr was given a row older than the watermark
OldRowIn(tr, m) ==
    \E i \in 1..Len(RowsOf(tr)) : RowTime(m, RowsOf(tr)[i]) < date_modified

\* C11 as claimed: no record delivered to the sink, of any kind, has a
\* modification time strictly less than the watermark.
C11_NoOldEntityDelivered ==
    pc = "done" =>
      LET out == Delivered
      IN \A i \in 1..Len(out) : out[i].timestamp.datetime >= date_modified

\* C11 as amended: no wiki page and no comment delivered to the sink is older
\* than the watermark, every work item the remote returned is delivered
\* whatever its modification time, and a pass fails only when a fetch fails.
C11_OldWikisAndCommentsExcluded ==
    /\ pc = "done" =>
         /\ LET out == Delivered
            IN \A i \in 1..Len(documents) :
                  documents[i].cls # "PhabricatorTask"
                  => out[i].timestamp.datetime >= date_modified
         /\ LET rows == RowsOf(2)
            IN SelectSeq(documents, LAMBDA d : d.cls = "PhabricatorTask") =
                 [i \in 1..Len(rows) |->
                    [cls |-> "PhabricatorTask",
                     id |-> rows[i].id,
                     name |-> rows[i].fields.name,
                     contents |-> rows[i].fields.description.raw,
                     timestamp |-> rows[i].fields.dateModified,
                     phid |-> rows[i].phid,
                     author_phid |-> rows[i].fields.authorPHID]]
    /\ pc = "failed" => log[Len(log)].result.tag = "raise"

\* a pass whose remote returned a wiki page, a work item and a comment all
\* older than the watermark: only the work item is delivered
C11_Witness ==
    /\ pc = "done"
    /\ OldRowIn(1, "get_all_wikis")
    /\ OldRowIn(2, "get_all_tasks")
    /\ trav >= 3
    /\ OldRowIn(3, "get_object_comments")
    /\ Len(Delivered) = 1
    /\ Delivered[1].title = "task1"
    /\ Delivered[1].timestamp.datetime < date_modified

\* C12: what a traversal accumulates and returns is the concatenation, in
\* fetch order, of the parser's output for each page it fetched, each page's
\* records in the parser's order: nothing dropped, duplicated or reordered.
C12_ConcatenationInFetchOrder ==
    Current(trav) =>
      /\ parsed_objects = RecordsOf(trav, method)
      /\ status = "returned" => retval = <<RecordsOf(trav, method)>>

\* two pages of one record each, the records different, returned in fetch order
C12_Witness ==
    LET ps == PagesOf(log, trav)
    IN /\ status = "returned"
       /\ Len(ps) = 2
       /\ Len(retval[1]) = 2
       /\ retval[1][1] # retval[1][2]
       /\ <<retval[1][1]>> = Parser(method, ps[1], date_modified)
       /\ <<retval[1][2]>> = Parser(method, ps[2], date_modified)

\* the WikiPage built from a raw wiki row
ExpectedWiki(row) ==
    [cls |-> "PhabricatorWiki",
     id |-> row.id,
     phid |-> row.phid,
     author_phid |-> row.attachments.content.authorPHID,
     timestamp |-> row.fields.dateModified,
     name |-> row.attachments.content.title,
     contents |-> row.attachments.content.content.raw]

\* the positions, in processing order, of the rows of phid ph that are not
\* older than the watermark
RetainedRows(rows, ph) ==
    {i \in 1..Len(rows) : rows[i].phid = ph /\ rows[i].fields.dateModified >= date_modified}

Last(S) == CHOOSE i \in S : \A j \in S : j <= i

\* C13: for every phid with a row not older than the watermark anywhere in a
\* wiki traversal, get_all_wikis returns exactly one record of that phid,
\* built from the last such row in processing order.
C13_LastRetainedRowWins ==
    (method = "get_all_wikis" /\ status = "returned") =>
      LET rows == RowsOf(trav)
          out == retval[1]
      IN \A ph \in {rows[i].phid : i \in 1..Len(rows)} :
            RetainedRows(rows, ph) # {} =>
               /\ Cardinality({k \in 1..Len(out) : out[k].phid = ph}) = 1
               /\ \A k \in 1..Len(out) :
                     out[k].phid = ph
                     => out[k] = ExpectedWiki(rows[Last(RetainedRows(rows, ph))])

\* the work item + wiki page sequence of the pass, once it is known
Parents == tasks \o wikis

\* C14: a pass runs one comment traversal per element of the work item + wiki
\* page sequence, in the order of that sequence, each scoped to its parent, and
\* the fetches of different traversals never interleave: wiki fetches, then
\* work item fetches, then the fetches of parent 1, of parent 2, and so on.
C14_SequentialFanOut ==
    /\ \A i \in 1..(Len(log) - 1) : log[i].trav <= log[i + 1].trav
    /\ \A i \in 1..Len(log) :
          CASE log[i].trav = 1 -> "order" \in DOMAIN log[i].query
            [] log[i].trav = 2 -> "constraints[modifiedStart]" \in DOMAIN log[i].query
            [] OTHER ->
                 /\ pc \in {"comments", "index", "done", "failed"}
                 /\ log[i].trav - 2 <= Len(Parents)
                 /\ log[i].query["objectIdentifier"] = Parents[log[i].trav - 2].phid
    /\ pc = "comments" => trav - 2 \in {doc_idx - 1, doc_idx} /\ trav - 2 <= Len(Parents)
    /\ pc \in {"index", "done"} =>
          /\ trav = 2 + Len(Parents)
          /\ \A i \in 1..Len(Parents) : \E k \in 1..Len(log) : log[k].trav = 2 + i

\* a completed pass over a work item and a wiki page: two fetches for the
\* comments of the work item, then one for the comments of the wiki page
C14_Witness ==
    /\ pc = "done"
    /\ Len(tasks) = 1
    /\ Len(wikis) = 1
    /\ Len(EntriesOf(3)) = 2
    /\ Len(EntriesOf(4)) = 1
    /\ EntriesOf(3)[2].query["objectIdentifier"] = "PHID-TASK-1"
    /\ EntriesOf(4)[1].query["objectIdentifier"] = "PHID-WIKI-1"
    /\ log[Len(log)].trav = 4

IsComment(d) == d.cls = "PhabricatorComment"

\* the phids the comment traversals of the pass were scoped to
ScopedPhids ==
    {log[i].query["objectIdentifier"] :
        i \in {k \in 1..Len(log) : "objectIdentifier" \in DOMAIN log[k].query}}

\* the phids of the comments the remote has returned in the pass
CommentPhids ==
    UNION {LET rows == RowsOf(tr)
           IN {rows[i].comments[1].phid :
                 i \in {k \in 1..Len(rows) : rows[k].type = "comment"}} :
           tr \in 3..trav}

\* C15: every comment delivered comes from a comment traversal scoped to the
\* phid of a work item or wiki page delivered before it in the same pass; no
\* comment traversal is scoped to the phid of a comment; a pass without
\* top-level objects fetches and delivers no comment.
C15_CommentsOnlyOfFetchedParents ==
    /\ ScopedPhids \cap CommentPhids = {}
    /\ pc \in {"comments", "index", "done"} =>
          ScopedPhids \subseteq {Parents[i].phid : i \in 1..Len(Parents)}
    /\ pc = "done" =>
          LET out == Delivered
              scoped == ScopedPhids
          IN /\ out = Export(documents)
             /\ \A i \in 1..Len(documents) :
                   IsComment(documents[i]) =>
                      \E j \in 1..(i - 1) :
                         /\ ~IsComment(documents[j])
                         /\ documents[j].phid = ParentOf(out[i])
                         /\ documents[j].phid \in scoped
    /\ (pc = "done" /\ Parents = <<>>) =>
                /\ trav = 2
                /\ \A i \in 1..Len(documents) : ~IsComment(documents[i])

\* a work item delivered with two comments fetched on two pages of its one
\* comment traversal
C15_Witness ==
    /\ pc = "done"
    /\ Len(documents) = 3
    /\ documents[1].cls = "PhabricatorTask"
    /\ IsComment(documents[2])
    /\ IsComment(documents[3])
    /\ ParentOf(Delivered[2]) = documents[1].phid
    /\ ParentOf(Delivered[3]) = documents[1].phid
    /\ ScopedPhids = {documents[1].phid}

\* the WorkItem built from a raw row of maniphest.search
ExpectedTask(row) ==
    [cls |-> "PhabricatorTask",
     id |-> row.id,
     name |-> row.fields.name,
     contents |-> row.fields.description.raw,
     timestamp |-> row.fields.dateModified,
     phid |-> row.phid,
     author_phid |-> row.fields.authorPHID]

\* C16: the work-item traversal keeps one WorkItem per row returned, in row
\* order, whatever the row's modification time, and every request of the
\* traversal carries constraints[modifiedStart] = watermark.
C16_TasksUnfiltered ==
    (method = "get_all_tasks" /\ Current(trav)) =>
      /\ parsed_objects =
           [i \in 1..Len(RowsOf(trav)) |-> ExpectedTask(RowsOf(trav)[i])]
      /\ \A i \in 1..Len(EntriesOf(trav)) :
            /\ "constraints[modifiedStart]" \in DOMAIN EntriesOf(trav)[i].query
            /\ EntriesOf(trav)[i].query["constraints[modifiedStart]"] = date_modified
      /\ "constraints[modifiedStart]" \in DOMAIN query
      /\ query["constraints[modifiedStart]"] = date_modified

\* a page holding a work item older than the watermark and one at the
\* watermark, both kept in row order, and a second request sent
C16_Witness ==
    /\ method = "get_all_tasks"
    /\ Len(EntriesOf(trav)) >= 2
    /\ Len(parsed_objects) = 2
    /\ parsed_objects[1].timestamp < date_modified
    /\ parsed_objects[2].timestamp = date_modified
    /\ EntriesOf(trav)[2].query["constraints[modifiedStart]"] = date_modified

FetchFailed == \E i \in 1..Len(log) : log[i].result.tag = "raise"

\* C17: the sink is fed only after the wiki traversal, the work-item traversal
\* and the comment traversal of every parent have completed; a pass in which a
\* fetch fails makes no further fetch and feeds the sink nothing.
C17_FeedAfterAllFetches ==
    /\ fed # <<>> =>
          /\ pc \in {"index", "done"}
          /\ status = "idle"
          /\ trav = 2 + Len(Parents)
          /\ \A tr \in 1..trav :
                LET es == EntriesOf(tr)
                IN /\ es # <<>>
                   /\ \/ es[Len(es)].result.tag = "none"
                      \/ /\ IsPage(es[Len(es)])
                         /\ Terminal(es[1], es[Len(es)])
    /\ FetchFailed =>
          /\ log[Len(log)].result.tag = "raise"
          /\ \A i \in 1..(Len(log) - 1) : log[i].result.tag # "raise"
          /\ pc \in {"wikis", "tasks", "comments", "failed"}
          /\ status = "raised"
          /\ fed = <<>>
          /\ documents = <<>>

\* the comment fetch of the first of two parents fails: the pass has aborted,
\* the second parent's comments were never fetched, the sink got nothing
C17_Witness ==
    /\ pc = "failed"
    /\ Len(Parents) = 2
    /\ trav = 3
    /\ log[Len(log)].result.tag = "raise"
    /\ fed = <<>>

\* C18: a completed run over n records has called feed floor(n / 512) + 1
\* times; the feed at the end of the stream is always made, with an empty
\* batch when n is 0 or a multiple of 512.
C18_FeedCount ==
    pc = "done" =>
      LET n == Len(documents)
      IN /\ Len(fed) = (n \div 512) + 1
         /\ n % 512 = 0 => fed[Len(fed)] = <<>>
         /\ n % 512 # 0 => fed[Len(fed)] # <<>>

\* 1024 records: two full batches, then an empty one
C18_Witness ==
    /\ pc = "done"
    /\ Len(documents) = 1024
    /\ Len(fed) = 3
    /\ fed[3] = <<>>

\* the query each caller builds for its traversal: get_all_wikis for the
\* first, get_all_tasks for the second, get_object_comments of the i-th
\* parent for traversal 2 + i
FreshQuery(tr) ==
    CASE tr = 1 ->
           [k \in {"queryKey", "attachments[content]", "order"} |->
              CASE k = "queryKey" -> "all"
                [] k = "attachments[content]" -> TRUE
                [] k = "order" -> "newest"]
      [] tr = 2 ->
           [k \in {"queryKey", "constraints[modifiedStart]"} |->
              IF k = "queryKey" THEN "all" ELSE date_modified]
      [] OTHER ->
           [k \in {"objectIdentifier"} |-> Parents[tr - 2].phid]

====
